---- MODULE Spec2Model ----
(***************************************************************************)
(* The three patch scripts of the repository (fix_chart_controls.py,       *)
(* fix_chart_final.py, update_chart_controls.py) acting on the one file    *)
(* components/HistoricalChart.tsx.                                         *)
(*                                                                         *)
(* Text is a sequence of atoms.  An atom is one space " ", one line break  *)
(* "\n", or a run of other characters.  The atoms are cut so that every    *)
(* string the scripts search for ('(', ')}', '</div>', 'chartView', the    *)
(* marker, '<div className="relative"', the multi-line literals) begins    *)
(* and ends on atom boundaries in every document of the model, hence       *)
(* matching atom by atom is matching character by character.               *)
(***************************************************************************)
EXTENDS Integers, Sequences, FiniteSets, TLC

----------------------------------------------------------------------------
(* Python text primitives *)

\* n spaces
Sp(n) == [k \in 1..n |-> " "]

NL == "\n"

\* s[i:] (1-based, inclusive start)
From(s, i) == SubSeq(s, i, Len(s))

\* does p occur in s starting at position i
OccursAt(s, p, i) ==
    /\ i >= 1
    /\ i + Len(p) - 1 <= Len(s)
    /\ s[i] = p[1]
    /\ s[i + Len(p) - 1] = p[Len(p)]
    /\ SubSeq(s, i, i + Len(p) - 1) = p

\* str.find(p, start): the first position >= start where p occurs, 0 when none
Find(s, p, start) ==
    LET hits == {i \in start..(Len(s) - Len(p) + 1) : OccursAt(s, p, i)}
    IN  IF hits = {} THEN 0 ELSE CHOOSE i \in hits : \A j \in hits : i <= j

\* the operator `p in s` on strings
Contains(s, p) == Find(s, p, 1) # 0

\* str.replace(old, new): every non-overlapping occurrence, left to right
RECURSIVE ReplaceFrom(_, _, _, _)
ReplaceFrom(s, old, new, start) ==
    LET i == Find(s, old, start)
    IN  IF i = 0 THEN From(s, start)
        ELSE SubSeq(s, start, i - 1) \o new \o ReplaceFrom(s, old, new, i + Len(old))

\* a replace that splices new in and leaves old behind it
RECURSIVE ReplaceKeepsOldFrom(_, _, _, _)
ReplaceKeepsOldFrom(s, old, new, start) ==
    LET i == Find(s, old, start)
    IN  IF i = 0 THEN From(s, start)
        ELSE SubSeq(s, start, i - 1) \o new \o old
             \o ReplaceKeepsOldFrom(s, old, new, i + Len(old))

ReplaceKeepsOld(s, old, new) == ReplaceKeepsOldFrom(s, old, new, 1)

Replace(s, old, new) == ReplaceFrom(s, old, new, 1)

\* f.readlines(): the text cut after every line break, line breaks kept
ReadLines(s) ==
    LET brk == SelectSeq([i \in 1..Len(s) |-> i], LAMBDA i : s[i] = NL)
        n   == Len(brk) + (IF Len(s) > 0 /\ s[Len(s)] # NL THEN 1 ELSE 0)
        cut == [k \in 1..n |-> SubSeq(s, IF k = 1 THEN 1 ELSE brk[k - 1] + 1,
                                         IF k <= Len(brk) THEN brk[k] ELSE Len(s))]
    IN  << >> \o cut

\* f.writelines(lines): the elements concatenated, nothing added
RECURSIVE Concat(_, _, _)
Concat(ls, lo, hi) ==
    IF lo > hi THEN << >>
    ELSE IF lo = hi THEN ls[lo]
    ELSE LET mid == (lo + hi) \div 2
         IN  Concat(ls, lo, mid) \o Concat(ls, mid + 1, hi)

WriteLines(ls) == Concat(ls, 1, Len(ls))

\* list.insert(i, x) with a 0-based index i <= len(list)
ListInsert(ls, i, x) == SubSeq(ls, 1, i) \o <<x>> \o SubSeq(ls, i + 1, Len(ls))

\* a multi-line literal: lines joined by line breaks, none after the last
RECURSIVE JoinLines(_)
JoinLines(ls) ==
    IF Len(ls) = 1 THEN ls[1] ELSE ls[1] \o <<NL>> \o JoinLines(Tail(ls))

\* number of occurrences of atom a in s
Count(s, a) == Cardinality({i \in 1..Len(s) : s[i] = a})

----------------------------------------------------------------------------
(* Literals of the scripts *)

\* fix_chart_controls.py: the scan skips every index <= Floor
Floor == 200

\* fix_chart_controls.py: the fixup window is
\* range(target + WindowStart, min(target + WindowEnd, len(lines) - 1))
WindowStart == 50

WindowEnd == 100

\* "chartView === 'timeline' &&"
Marker == <<"chartView", " === 'timeline' &&">>

\* '<div className="relative"'
DivRelative == <<"<div", " ", "className=\"relative\"">>

\* '(' and what the target line's '(' is replaced by: '(\n' + indent + '<>'
Paren == <<"(">>

indent == Sp(23)

OpenFragment == <<"(", NL>> \o indent \o <<"<>">>

\* '                       </>\n'
CloseFragmentLine == Sp(23) \o <<"</>", NL>>

\* the text of new_lines[1:] after indent, as (spaces, atoms), line break left out
Ctrl ==
    << <<4,  <<"{/* Data Averaging Controls */}">> >>,
       <<4,  <<"<div", " ", "className=\"flex items-center gap-3 border-r border-gray-600 pr-4\">">> >>,
       <<8,  <<"<label className=\"flex items-center space-x-2 text-sm text-gray-300 cursor-pointer\">">> >>,
       <<12, <<"<input", " ">> >>,
       <<16, <<"type=\"checkbox\"", " ">> >>,
       <<16, <<"checked={averagingEnabled}", " ">> >>,
       <<16, <<"onChange={", "(", "e) => {">> >>,
       <<20, <<"setAveragingEnabled", "(", "e.target.checked);">> >>,
       <<20, <<"if ", "(", "!e.target.checked) setManualBucketSize", "(", "null);">> >>,
       <<16, <<"}}">> >>,
       <<16, <<"className=\"form-checkbox h-4 w-4 bg-gray-700 border-gray-600 text-secondary focus:ring-secondary\"">> >>,
       <<12, <<"/>">> >>,
       <<12, <<"<span>Data Averaging</span>">> >>,
       <<8,  <<"</label>">> >>,
       <<8,  <<"{averagingEnabled &&", " ", "(">> >>,
       <<12, <<"<select", " ">> >>,
       <<16, <<"value={manualBucketSize || 'auto'}", " ">> >>,
       <<16, <<"onChange={", "(", "e) => setManualBucketSize", "(",
               "e.target.value === 'auto' ? null : e.target.value", ")}">> >>,
       <<16, <<"className=\"bg-gray-700 border border-gray-600 rounded-md px-2 py-1 text-sm text-white focus:ring-secondary focus:border-secondary\"">> >>,
       <<12, <<">">> >>,
       <<16, <<"<option value=\"auto\">Auto ", "(", "Zoom-based)</option>">> >>,
       <<16, <<"<option value=\"raw\">No Averaging</option>">> >>,
       <<16, <<"<option value=\"5\">5 Minutes</option>">> >>,
       <<16, <<"<option value=\"15\">15 Minutes</option>">> >>,
       <<16, <<"<option value=\"60\">1 Hour</option>">> >>,
       <<16, <<"<option value=\"240\">4 Hours</option>">> >>,
       <<16, <<"<option value=\"1440\">1 Day</option>">> >>,
       <<12, <<"</select>">> >>,
       <<8,  <<")}">> >>,
       <<4,  <<"</div>">> >> >>

\* new_lines[k] for k >= 1: indent + literal, line break included
ControlsLine(k) == indent \o Sp(Ctrl[k][1]) \o Ctrl[k][2] \o <<NL>>

\* new_lines, built from the target line
new_lines(target) ==
    <<Replace(target, Paren, OpenFragment)>> \o [k \in 1..Len(Ctrl) |-> ControlsLine(k)]

\* the lines the two scripts' literals are made of, without line break
FlexDiv == <<"<div", " ", "className=\"flex justify-end items-center gap-4 mt-4\"", ">">>

ResetButton ==
    <<"{hasChartData && <button onClick={onResetView} className=\"text-sm text-secondary hover:underline\">Reset View</button>}">>

TimelineOpen == <<"{">> \o Marker \o <<" ", "(">>

DivRelativeFull == DivRelative \o <<" ", "ref={metricConfigRef}>">>

GenerateButton == <<"<button onClick={onGenerate}">>

\* update_chart_controls.py
old_section ==
    JoinLines(<< Sp(15) \o FlexDiv, Sp(20) \o ResetButton, Sp(20) \o TimelineOpen,
                 Sp(23) \o DivRelativeFull >>)

new_section ==
    JoinLines(<< Sp(15) \o FlexDiv, Sp(20) \o ResetButton, Sp(20) \o TimelineOpen,
                 Sp(23) \o <<"<>">> >>
              \o [k \in 1..Len(Ctrl) |-> Sp(23 + Ctrl[k][1]) \o Ctrl[k][2]]
              \o << Sp(27) \o DivRelativeFull >>)

FlexClass == <<"className=\"flex justify-end items-center gap-4 mt-4\"">>

old_close ==
    JoinLines(<< Sp(23) \o <<"</div>">>, Sp(20) \o <<")}">>, Sp(20) \o GenerateButton >>)

new_close ==
    JoinLines(<< Sp(27) \o <<"</div>">>, Sp(23) \o <<"</>">>, Sp(20) \o <<")}">>,
                 Sp(20) \o GenerateButton >>)

\* fix_chart_final.py
misplaced_old ==
    JoinLines(<< Sp(59) \o <<"</div>">>, Sp(26) \o <<"</>">>, Sp(55) \o <<")}">> >>)

misplaced_new ==
    JoinLines(<< Sp(59) \o <<"</div>">>, Sp(55) \o <<")}">> >>)

final_old ==
    JoinLines(<< Sp(31) \o <<"</div>">>, Sp(27) \o <<")}">>, Sp(23) \o <<"</div>">>,
                 Sp(20) \o <<")}">>, Sp(20) \o GenerateButton >>)

final_new ==
    JoinLines(<< Sp(31) \o <<"</div>">>, Sp(27) \o <<")}">>, Sp(23) \o <<"</div>">>,
                 Sp(23) \o <<"</>">>, Sp(20) \o <<")}">>, Sp(20) \o GenerateButton >>)

----------------------------------------------------------------------------
(* fix_chart_controls.py: the pure steps *)

None == -1

\* a scan whose floor test is i >= Floor
FindTargetAtFloor(ls) ==
    LET hits == SelectSeq([k \in 1..Len(ls) |-> k - 1],
                          LAMBDA i : Contains(ls[i + 1], Marker) /\ i >= Floor)
    IN  IF hits = << >> THEN None ELSE Head(hits)

\* for i, line in enumerate(lines): the indices (0-based) that pass the test,
\* in the order of the loop; the loop breaks at the first of them
FindTarget(ls) ==
    LET hits == SelectSeq([k \in 1..Len(ls) |-> k - 1],
                          LAMBDA i : Contains(ls[i + 1], Marker) /\ i > Floor)
    IN  IF hits = << >> THEN None ELSE Head(hits)

\* a structure check that does not look at the line
StructureCheckNoDiv(ls, t) == IF t + 1 >= Len(ls) THEN "IndexError" ELSE "ok"

\* lines[target + 1] raises IndexError when target is the last index
StructureCheck(ls, t) ==
    IF t + 1 >= Len(ls) THEN "IndexError"
    ELSE IF ~Contains(ls[t + 2], DivRelative) THEN "unexpected"
    ELSE "ok"

\* lines[target] = new_lines[0], then lines.insert(target + i, new_lines[i])
RECURSIVE InsertFrom(_, _, _, _)
InsertFrom(ls, t, nl, i) ==
    IF i > Len(nl) - 1 THEN ls
    ELSE InsertFrom(ListInsert(ls, t + i, nl[i + 1]), t, nl, i + 1)

InsertControls(ls, t) ==
    LET nl == new_lines(ls[t + 1])
    IN  InsertFrom([ls EXCEPT ![t + 1] = nl[1]], t, nl, 1)

\* the fixup loop from index i up to (not including) stop:
\* the first i whose condition holds ("match"), or the IndexError that
\* lines[i + 2] raises when the first three conjuncts hold at i = len - 2,
\* or "none" when the range is exhausted
RECURSIVE FixupLoop(_, _, _)
FixupLoop(ls, i, stop) ==
    IF i >= stop THEN [kind |-> "none", i |-> None]
    ELSE IF /\ Contains(ls[i + 1], <<"</div>">>)
            /\ i + 1 < Len(ls)
            /\ Contains(ls[i + 2], <<")}", NL>>)
         THEN IF i + 2 >= Len(ls) THEN [kind |-> "IndexError", i |-> i]
              ELSE IF ~Contains(ls[i + 3], <<"chartView">>) THEN [kind |-> "match", i |-> i]
              ELSE FixupLoop(ls, i + 1, stop)
         ELSE FixupLoop(ls, i + 1, stop)

Min(a, b) == IF a <= b THEN a ELSE b

\* a fixup loop that starts one index early
FixupScanEarly(ls, t) ==
    FixupLoop(ls, t + WindowStart - 1, Min(t + WindowEnd, Len(ls) - 1))

FixupScan(ls, t) == FixupLoop(ls, t + WindowStart, Min(t + WindowEnd, Len(ls) - 1))

\* lines[i + 1] = '                       </>\n' + lines[i + 1]
CloseFragment(ls, i) == [ls EXCEPT ![i + 2] = CloseFragmentLine \o ls[i + 2]]

----------------------------------------------------------------------------
(* The documents the scripts are run on *)

\* bounds of the model
MaxRuns == 2

MaxPad == 1

MaxSlack == 1

Filler == <<NL>>

Fill(n) == [k \in 1..n |-> Filler]

\* the line holding the marker
TargetLine(kind) ==
    CASE kind = "one"  -> Sp(20) \o TimelineOpen \o <<NL>>
      [] kind = "zero" -> Sp(20) \o <<"{">> \o Marker \o <<NL>>
      [] kind = "two"  -> Sp(20) \o <<"{">> \o Marker \o <<" ", "(", "ready", " ", "(">> \o <<NL>>
      [] kind = "div"  -> Sp(20) \o TimelineOpen \o <<" ">> \o DivRelativeFull \o <<NL>>

\* the line after it
NextLine(kind) ==
    CASE kind = "div23" -> << Sp(23) \o DivRelativeFull \o <<NL>> >>
      [] kind = "div27" -> << Sp(27) \o DivRelativeFull \o <<NL>> >>
      [] kind = "span"  -> << Sp(23) \o <<"<span>", NL>> >>
      [] kind = "eof"   -> << >>

ButtonLine == Sp(20) \o GenerateButton \o <<" ", "disabled={loading}>", NL>>

OtherView == Sp(20) \o <<"{", "chartView", " === 'bar' &&", " ", "(", NL>>

\* the lines that close the section
CloseLines(kind) ==
    CASE kind = "final" ->
           << Sp(31) \o <<"</div>", NL>>, Sp(27) \o <<")}", NL>>,
              Sp(23) \o <<"</div>", NL>>, Sp(20) \o <<")}", NL>>, ButtonLine >>
      [] kind = "inner" ->
           << Sp(59) \o <<"</div>", NL>>, Sp(55) \o <<")}", NL>>,
              Sp(31) \o <<"</div>", NL>>, Sp(27) \o <<")}", NL>>,
              Sp(23) \o <<"</div>", NL>>, Sp(20) \o <<")}", NL>>, ButtonLine >>
      [] kind = "misplaced" ->
           << Sp(59) \o <<"</div>", NL>>, Sp(26) \o <<"</>", NL>>, Sp(55) \o <<")}", NL>>,
              Sp(31) \o <<"</div>", NL>>, Sp(27) \o <<")}", NL>>,
              Sp(23) \o <<"</div>", NL>>, Sp(20) \o <<")}", NL>>, ButtonLine >>
      [] kind = "close" ->
           << Sp(23) \o <<"</div>", NL>>, Sp(20) \o <<")}", NL>>, ButtonLine >>
      [] kind = "close27" ->
           << Sp(27) \o <<"</div>", NL>>, Sp(20) \o <<")}", NL>>, ButtonLine >>
      [] kind = "twice" ->
           << Sp(23) \o <<"</div>", NL>>, Sp(20) \o <<")}", NL>>, ButtonLine,
              Sp(23) \o <<"</div>", NL>>, Sp(20) \o <<")}", NL>>, ButtonLine >>
      [] kind = "view" ->
           << Sp(23) \o <<"</div>", NL>>, Sp(20) \o <<")}", NL>>, OtherView >>
      [] kind = "last" ->
           << Sp(23) \o <<"</div>", NL>>, Sp(20) \o <<")}", NL>> >>
      [] kind = "lastraw" ->
           << Sp(23) \o <<"</div>", NL>>, Sp(20) \o <<")}">> >>
      [] kind = "absent" -> << >>

\* what follows
TailLines(kind) ==
    CASE kind = "none"   -> << >>
      [] kind = "fill"   -> Fill(2)
      [] kind = "second" -> <<TargetLine("one")>> \o NextLine("div23") \o Fill(2)

\* number of filler lines between the line after the target and the closing
\* lines: the closing '</div>' then lands, after the insertion, slack lines
\* after the index just below the start (lo) or the end (hi) of the window
Gap(edge, slack) ==
    (IF edge = "lo" THEN WindowStart ELSE WindowEnd) - Len(Ctrl) - 3 + slack

\* a document, as the lines it is made of:
\*   pad filler lines (the fourth is a marker line when early),
\*   [the two lines that open old_section when pre], the target line, the
\*   line after it, the gap, the closing lines, the tail
DocLines(p) ==
    LET top  == IF p.early THEN Fill(3) \o <<TargetLine("one")>> \o Fill(p.pad - 4)
                ELSE Fill(p.pad)
        pre  == IF p.pre THEN << Sp(15) \o FlexDiv \o <<NL>>, Sp(20) \o ResetButton \o <<NL>> >>
                ELSE << >>
        body == IF p.tgt = "absent" THEN << >>
                ELSE <<TargetLine(p.tgt)>> \o NextLine(p.nxt)
    IN  top \o pre \o body \o Fill(p.gap) \o CloseLines(p.cls) \o TailLines(p.tail)

Doc(p) == WriteLines(DocLines(p))

\* pad so that the target line has index Floor + d
Pad(d, pre) == Floor + d - (IF pre THEN 2 ELSE 0)

Base == [pad |-> Pad(1, TRUE), early |-> FALSE, pre |-> TRUE, tgt |-> "one",
         nxt |-> "div23", gap |-> Gap("lo", 1), cls |-> "final", tail |-> "fill"]

\* the families of documents: each varies a few parts of Base
LocatorDocs ==
    { [Base EXCEPT !.pad = Pad(d, pre), !.early = e, !.pre = pre, !.tgt = t, !.tail = tl] :
        d \in 0..MaxPad, e \in BOOLEAN, pre \in BOOLEAN,
        t \in {"one", "absent"}, tl \in {"fill", "second"} }

SpliceDocs ==
    { [Base EXCEPT !.pre = FALSE, !.pad = Pad(1, FALSE), !.tgt = t, !.nxt = n, !.cls = c] :
        t \in {"one", "zero", "two", "div"}, n \in {"div23", "div27", "span"},
        c \in {"final", "close"} }
    \cup { [Base EXCEPT !.pre = FALSE, !.pad = Pad(1, FALSE), !.tgt = t, !.nxt = "eof",
                        !.gap = 0, !.cls = "absent", !.tail = "none"] :
             t \in {"one", "zero"} }

FixupDocs ==
    { [Base EXCEPT !.gap = Gap(e, s), !.cls = c, !.tail = tl] :
        e \in {"lo", "hi"}, s \in 0..MaxSlack,
        c \in {"final", "inner", "misplaced", "close", "view", "absent"},
        tl \in {"fill"} }
    \cup { [Base EXCEPT !.gap = Gap(e, s), !.cls = c, !.tail = "none"] :
        e \in {"lo", "hi"}, s \in 0..MaxSlack, c \in {"last", "lastraw"} }

ReplaceDocs ==
    { [Base EXCEPT !.pre = pre, !.pad = Pad(1, pre), !.nxt = n, !.cls = c] :
        pre \in BOOLEAN, n \in {"div23", "div27"},
        c \in {"final", "inner", "misplaced", "close", "close27", "twice", "absent"} }

Docs == { Doc(p) : p \in LocatorDocs \cup SpliceDocs \cup FixupDocs \cup ReplaceDocs }

----------------------------------------------------------------------------
(* The scripts as processes on the file *)

VARIABLES
    file,             \* components/HistoricalChart.tsx on disk
    script,           \* the script that is running or ran last
    pc,               \* where that script is
    lines,            \* fix_chart_controls.py: lines
    target_line_idx,  \* fix_chart_controls.py: target_line_idx
    closed_at,        \* fix_chart_controls.py: i of the fixup loop at its break
    content,          \* fix_chart_final.py, update_chart_controls.py: content
    out,              \* what the run has printed
    exit,             \* exit status of the run, None while there is none
    exc,              \* the exception that ended the run
    writes,           \* how often the run has written the file
    before,           \* the file when the run started
    prev,             \* the run before this one
    runs              \* number of runs started

vars == <<file, script, pc, lines, target_line_idx, closed_at, content, out, exit,
          exc, writes, before, prev, runs>>

Scripts == {"fix_chart_controls", "fix_chart_final", "update_chart_controls"}

NoRun == [script |-> "none", before |-> << >>, exit |-> None, exc |-> "none",
          target |-> None, closed_at |-> None]

Init ==
    /\ file \in Docs
    /\ script = "none"
    /\ pc = "idle"
    /\ lines = << >>
    /\ target_line_idx = None
    /\ closed_at = None
    /\ content = << >>
    /\ out = << >>
    /\ exit = None
    /\ exc = "none"
    /\ writes = 0
    /\ before = file
    /\ prev = NoRun
    /\ runs = 0

\* the operator starts one of the scripts; a script starts with fresh variables
Launch ==
    /\ pc \in {"idle", "done"}
    /\ runs < MaxRuns
    /\ \E s \in Scripts : script' = s
    /\ pc' = "read"
    /\ prev' = IF script = "none" THEN NoRun
               ELSE [script |-> script, before |-> before, exit |-> exit, exc |-> exc,
                     target |-> target_line_idx, closed_at |-> closed_at]
    /\ before' = file
    /\ lines' = << >>
    /\ target_line_idx' = None
    /\ closed_at' = None
    /\ content' = << >>
    /\ out' = << >>
    /\ exit' = None
    /\ exc' = "none"
    /\ writes' = 0
    /\ runs' = runs + 1
    /\ UNCHANGED file

\* print(...); exit(1)
Abort(msgs) ==
    /\ out' = out \o msgs
    /\ exit' = 1
    /\ pc' = "done"

\* an uncaught exception: traceback, exit status 1
Raise(e) ==
    /\ exc' = e
    /\ exit' = 1
    /\ pc' = "done"
    /\ UNCHANGED out

(* fix_chart_controls.py *)

FccRead ==
    /\ script = "fix_chart_controls" /\ pc = "read"
    /\ lines' = ReadLines(file)
    /\ pc' = "scan"
    /\ UNCHANGED <<file, script, target_line_idx, closed_at, content, out, exit, exc,
                   writes, before, prev, runs>>

FccScan ==
    /\ script = "fix_chart_controls" /\ pc = "scan"
    /\ target_line_idx' = FindTarget(lines)
    /\ IF target_line_idx' = None
       THEN Abort(<<"Could not find target line">>)
       ELSE /\ out' = out \o <<"Found target at line">>
            /\ pc' = "check"
            /\ UNCHANGED exit
    /\ UNCHANGED <<file, script, lines, closed_at, content, exc, writes, before, prev, runs>>

FccCheck ==
    /\ script = "fix_chart_controls" /\ pc = "check"
    /\ LET r == StructureCheck(lines, target_line_idx)
       IN  CASE r = "IndexError" -> Raise("IndexError")
             [] r = "unexpected" -> Abort(<<"Unexpected structure">>) /\ UNCHANGED exc
             [] r = "ok"         -> pc' = "insert" /\ UNCHANGED <<out, exit, exc>>
    /\ UNCHANGED <<file, script, lines, target_line_idx, closed_at, content, writes,
                   before, prev, runs>>

FccInsert ==
    /\ script = "fix_chart_controls" /\ pc = "insert"
    /\ lines' = InsertControls(lines, target_line_idx)
    /\ pc' = "fixup"
    /\ UNCHANGED <<file, script, target_line_idx, closed_at, content, out, exit, exc,
                   writes, before, prev, runs>>

FccFixup ==
    /\ script = "fix_chart_controls" /\ pc = "fixup"
    /\ LET r == FixupScan(lines, target_line_idx)
       IN  CASE r.kind = "IndexError" ->
                  Raise("IndexError") /\ UNCHANGED <<lines, closed_at>>
             [] r.kind = "match" ->
                  /\ lines' = CloseFragment(lines, r.i)
                  /\ closed_at' = r.i
                  /\ out' = out \o <<"Updated closing at line">>
                  /\ pc' = "write"
                  /\ UNCHANGED <<exit, exc>>
             [] r.kind = "none" ->
                  /\ pc' = "write"
                  /\ UNCHANGED <<lines, closed_at, out, exit, exc>>
    /\ UNCHANGED <<file, script, target_line_idx, content, writes, before, prev, runs>>

FccWrite ==
    /\ script = "fix_chart_controls" /\ pc = "write"
    /\ file' = WriteLines(lines)
    /\ writes' = writes + 1
    /\ out' = out \o <<"Chart controls updated successfully!">>
    /\ exit' = 0
    /\ pc' = "done"
    /\ UNCHANGED <<script, lines, target_line_idx, closed_at, content, exc, before,
                   prev, runs>>

(* fix_chart_final.py *)

FcfRead ==
    /\ script = "fix_chart_final" /\ pc = "read"
    /\ content' = file
    /\ pc' = "remove"
    /\ UNCHANGED <<file, script, lines, target_line_idx, closed_at, out, exit, exc,
                   writes, before, prev, runs>>

FcfRemove ==
    /\ script = "fix_chart_final" /\ pc = "remove"
    /\ content' = Replace(content, misplaced_old, misplaced_new)
    /\ pc' = "close"
    /\ UNCHANGED <<file, script, lines, target_line_idx, closed_at, out, exit, exc,
                   writes, before, prev, runs>>

FcfClose ==
    /\ script = "fix_chart_final" /\ pc = "close"
    /\ content' = Replace(content, final_old, final_new)
    /\ pc' = "write"
    /\ UNCHANGED <<file, script, lines, target_line_idx, closed_at, out, exit, exc,
                   writes, before, prev, runs>>

FcfWrite ==
    /\ script = "fix_chart_final" /\ pc = "write"
    /\ file' = content
    /\ writes' = writes + 1
    /\ out' = out \o <<"Fixed fragment placement!">>
    /\ exit' = 0
    /\ pc' = "done"
    /\ UNCHANGED <<script, lines, target_line_idx, closed_at, content, exc, before,
                   prev, runs>>

(* update_chart_controls.py *)

UccRead ==
    /\ script = "update_chart_controls" /\ pc = "read"
    /\ content' = file
    /\ pc' = "section"
    /\ UNCHANGED <<file, script, lines, target_line_idx, closed_at, out, exit, exc,
                   writes, before, prev, runs>>

UccSection ==
    /\ script = "update_chart_controls" /\ pc = "section"
    /\ IF Contains(content, old_section)
       THEN /\ content' = Replace(content, old_section, new_section)
            /\ out' = out \o <<"Found and replaced the section">>
            /\ pc' = "close"
            /\ UNCHANGED exit
       ELSE /\ Abort(<<"Section not found - checking for variations",
                       IF Contains(content, FlexClass)
                       THEN "Found the div, but exact match failed"
                       ELSE "Could not find the div at all">>)
            /\ UNCHANGED content
    /\ UNCHANGED <<file, script, lines, target_line_idx, closed_at, exc, writes, before,
                   prev, runs>>

\* a closing step without the exit(1)
UccCloseFallsThrough ==
    /\ script = "update_chart_controls" /\ pc = "close"
    /\ IF Contains(content, old_close)
       THEN /\ content' = Replace(content, old_close, new_close)
            /\ out' = out \o <<"Found and replaced the closing section">>
       ELSE /\ out' = out \o <<"Closing section not found">>
            /\ UNCHANGED content
    /\ pc' = "write"
    /\ UNCHANGED <<file, script, lines, target_line_idx, closed_at, exit, exc, writes,
                   before, prev, runs>>

UccClose ==
    /\ script = "update_chart_controls" /\ pc = "close"
    /\ IF Contains(content, old_close)
       THEN /\ content' = Replace(content, old_close, new_close)
            /\ out' = out \o <<"Found and replaced the closing section">>
            /\ pc' = "write"
            /\ UNCHANGED exit
       ELSE /\ Abort(<<"Closing section not found">>)
            /\ UNCHANGED content
    /\ UNCHANGED <<file, script, lines, target_line_idx, closed_at, exc, writes, before,
                   prev, runs>>

UccWrite ==
    /\ script = "update_chart_controls" /\ pc = "write"
    /\ file' = content
    /\ writes' = writes + 1
    /\ out' = out \o <<"File updated successfully!">>
    /\ exit' = 0
    /\ pc' = "done"
    /\ UNCHANGED <<script, lines, target_line_idx, closed_at, content, exc, before,
                   prev, runs>>

Next ==
    \/ Launch
    \/ FccRead \/ FccScan \/ FccCheck \/ FccInsert \/ FccFixup \/ FccWrite
    \/ FcfRead \/ FcfRemove \/ FcfClose \/ FcfWrite
    \/ UccRead \/ UccSection \/ UccClose \/ UccWrite

Spec == Init /\ [][Next]_vars

----------------------------------------------------------------------------
(* Properties *)

Fcc == script = "fix_chart_controls"

Fcf == script = "fix_chart_final"

Ucc == script = "update_chart_controls"

\* the indices above the floor whose line holds the marker
MarkerAbove(ls) == {i \in 0..(Len(ls) - 1) : i > Floor /\ Contains(ls[i + 1], Marker)}

Lowest(S) == CHOOSE i \in S : \A j \in S : i <= j

\* the positions at which p occurs in s
Occurrences(s, p) == {i \in 1..Len(s) : OccursAt(s, p, i)}

\* fix_chart_controls.py finds no anchor in doc: no marker line above the
\* floor, or a line after the target that is not the '<div className="relative"'
FccAnchorMissing(doc) ==
    LET ls == ReadLines(doc)
        S  == MarkerAbove(ls)
    IN  \/ S = {}
        \/ /\ Lowest(S) + 1 < Len(ls)
           /\ ~Contains(ls[Lowest(S) + 2], DivRelative)

\* update_chart_controls.py finds no anchor in doc
UccAnchorMissing(doc) == ~Contains(doc, old_section) \/ ~Contains(doc, old_close)

\* C1: a run of fix_chart_controls.py or update_chart_controls.py that does not
\* find a required anchor never changes the file and ends with exit status 1;
\* no run writes the file more than once, and the file differs from what the
\* run started with only after the one write.
C1_AbortLeavesFile ==
    /\ writes <= 1
    /\ writes = 0 => file = before
    /\ ((Fcc /\ FccAnchorMissing(before)) \/ (Ucc /\ UccAnchorMissing(before)))
         => /\ file = before
            /\ writes = 0
            /\ pc = "done" => exit = 1

\* update_chart_controls.py has replaced old_section in memory, old_close is
\* absent, and the run has ended with exit status 1 and the file untouched
C1_Witness ==
    /\ Ucc /\ pc = "done" /\ exit = 1
    /\ Contains(before, old_section) /\ ~Contains(before, old_close)
    /\ content # before
    /\ file = before

\* C2: a whole-string replacement step whose literal is absent makes the run
\* end with a non-zero exit status and the file as it was, in fix_chart_final.py
\* (both steps) as in update_chart_controls.py (both steps).
C2_AbsentLiteralExits ==
    pc = "done" =>
      /\ (Fcf /\ (\/ ~Contains(before, misplaced_old)
                  \/ ~Contains(Replace(before, misplaced_old, misplaced_new), final_old)))
           => (exit = 1 /\ file = before)
      /\ (Ucc /\ UccAnchorMissing(before)) => (exit = 1 /\ file = before)

\* C3: when old_section and old_close each occur exactly once, the run of
\* update_chart_controls.py writes the document with exactly these two regions
\* replaced by new_section and new_close and everything else in place.
C3_OnlyRegionsReplaced ==
    (Ucc /\ pc = "done"
         /\ Cardinality(Occurrences(before, old_section)) = 1
         /\ Cardinality(Occurrences(before, old_close)) = 1)
      => LET a == CHOOSE i \in Occurrences(before, old_section) : TRUE
             b == CHOOSE i \in Occurrences(before, old_close) : TRUE
         IN  /\ exit = 0
             /\ writes = 1
             /\ file = IF a < b
                       THEN SubSeq(before, 1, a - 1) \o new_section
                            \o SubSeq(before, a + Len(old_section), b - 1) \o new_close
                            \o From(before, b + Len(old_close))
                       ELSE SubSeq(before, 1, b - 1) \o new_close
                            \o SubSeq(before, b + Len(old_close), a - 1) \o new_section
                            \o From(before, a + Len(old_section))

\* a finished run on a document with one old_section and one old_close, the
\* latter inside a longer run of spaces
C3_Witness ==
    /\ Ucc /\ pc = "done" /\ exit = 0
    /\ Cardinality(Occurrences(before, old_section)) = 1
    /\ Cardinality(Occurrences(before, old_close)) = 1
    /\ \E b \in Occurrences(before, old_close) : before[b - 1] = " "
    /\ file # before

\* C4: once the scan is over, target_line_idx is the lowest index above the
\* floor whose line holds the marker, and None when there is no such index;
\* an index at or below the floor is never chosen.
C4_LowestAboveFloor ==
    (Fcc /\ pc \notin {"read", "scan"})
      => LET S == MarkerAbove(ReadLines(before))
         IN  /\ target_line_idx # None => target_line_idx > Floor
             /\ IF S = {} THEN target_line_idx = None
                ELSE target_line_idx = Lowest(S)

\* the marker is on a line below the floor and on two lines above it, and the
\* scan has chosen the lower of the two
C4_Witness ==
    /\ Fcc /\ pc = "check"
    /\ LET ls == ReadLines(before)
       IN  /\ \E i \in 0..Floor : i < Len(ls) /\ Contains(ls[i + 1], Marker)
           /\ Cardinality(MarkerAbove(ls)) >= 2
           /\ target_line_idx = Lowest(MarkerAbove(ls))


\* the indices of the fixup window for target t in the lines P
Window(P, t) == {i \in (t + WindowStart)..(Min(t + WindowEnd, Len(P) - 1) - 1) : TRUE}

\* index i of P satisfies the fixup condition
Satisfies(P, i) ==
    /\ Contains(P[i + 1], <<"</div>">>)
    /\ i + 1 < Len(P)
    /\ Contains(P[i + 2], <<")}", NL>>)
    /\ i + 2 < Len(P)
    /\ ~Contains(P[i + 3], <<"chartView">>)

\* s without its element at position j
Without(s, j) == SubSeq(s, 1, j - 1) \o SubSeq(s, j + 1, Len(s))

\* C5: for a document with as many '<>' as '</>' on which fix_chart_controls.py
\* has run to success, the run of fix_chart_final.py that follows leaves a
\* document with as many '<>' as '</>'.
C5_Balanced ==
    (Fcf /\ pc = "done" /\ prev.script = "fix_chart_controls" /\ prev.exit = 0
         /\ Count(prev.before, "<>") = Count(prev.before, "</>"))
      => Count(file, "<>") = Count(file, "</>")

\* C6: after a successful run of fix_chart_controls.py the written document is:
\* the original lines before the target, the target line followed by exactly
\* one new '<>' line, the 30 controls lines in order, the original line that
\* followed the target, then the remaining original lines in their order,
\* apart from at most one inserted '</>' line.
C6_Layout ==
    (Fcc /\ pc = "done" /\ exit = 0)
      => LET O == ReadLines(before)
             L == ReadLines(file)
             t == target_line_idx
             n == Len(Ctrl)
             R == SubSeq(L, t + n + 4, Len(L))
             Q == SubSeq(O, t + 3, Len(O))
         IN  /\ Len(L) >= t + n + 3
             /\ SubSeq(L, 1, t) = SubSeq(O, 1, t)
             /\ Count(file, "<>") = Count(before, "<>") + 1
             /\ SubSeq(L[t + 2], 1, Len(indent) + 1) = indent \o <<"<>">>
             /\ \A k \in 1..n : L[t + 2 + k] = ControlsLine(k)
             /\ L[t + n + 3] = O[t + 2]
             /\ \/ R = Q
                \/ \E j \in 1..Len(R) : R[j] = CloseFragmentLine /\ Without(R, j) = Q

\* C7: when the structure check has passed and no index of the window
\* satisfies the fixup condition, fix_chart_controls.py adds no '</>', writes
\* the file once with the '<>' and the controls in it, prints the success
\* message and ends with exit status 0.
C7_SilentSkip ==
    (Fcc /\ pc = "done" /\ ~FccAnchorMissing(before)
         /\ Lowest(MarkerAbove(ReadLines(before))) + 1 < Len(ReadLines(before)))
      => LET t == Lowest(MarkerAbove(ReadLines(before)))
             P == InsertControls(ReadLines(before), t)
         IN  (\A i \in Window(P, t) : ~Satisfies(P, i))
               => /\ writes = 1
                  /\ exit = 0
                  /\ file = WriteLines(P)
                  /\ Count(file, "</>") = Count(before, "</>")
                  /\ out[Len(out)] = "Chart controls updated successfully!"
                  /\ \A k \in 1..Len(out) : out[k] # "Updated closing at line"

\* C8: a run of fix_chart_controls.py adds at most one '</>', and when it adds
\* one it puts it in front of line i + 1 for the lowest index i of the window
\* that satisfies the fixup condition, which is past the controls block and
\* within target + 51 .. target + 100; every other line is as inserted.
C8_OneCloseInWindow ==
    Fcc =>
      /\ Count(file, "</>") <= Count(before, "</>") + 1
      /\ (closed_at = None /\ pc \in {"write", "done"})
           => Count(WriteLines(lines), "</>") = Count(before, "</>")
      /\ closed_at # None
           => LET t == target_line_idx
                  P == InsertControls(ReadLines(before), t)
              IN  /\ closed_at \in Window(P, t)
                  /\ Satisfies(P, closed_at)
                  /\ \A j \in Window(P, t) : j < closed_at => ~Satisfies(P, j)
                  /\ lines = [P EXCEPT ![closed_at + 2] = CloseFragmentLine \o @]
                  /\ closed_at + 1 > t + Len(Ctrl)
                  /\ closed_at + 1 \in (t + WindowStart + 1)..(t + WindowEnd)
                  /\ Count(WriteLines(lines), "</>") = Count(before, "</>") + 1

\* the '</>' has been put after an index of the window that is not its first
C8_Witness ==
    /\ Fcc /\ pc = "done" /\ exit = 0
    /\ closed_at # None
    /\ closed_at > target_line_idx + WindowStart
    /\ Count(file, "</>") = Count(before, "</>") + 1

\* C9: no run of fix_chart_controls.py ends in an IndexError.
C9_NoIndexError == Fcc => exc # "IndexError"

\* some '(' of the line is followed, on the line, by '<div className="relative"'
DivAfterParen(l) ==
    \E i \in 1..Len(l) : l[i] = "(" /\ Contains(From(l, i + 1), DivRelative)

SecondRun == pc = "done" /\ prev.script = script /\ prev.exit = 0

SecondRunAborts ==
    /\ exit = 1
    /\ file = before
    /\ writes = 0
    /\ Fcc => out[Len(out)] = "Unexpected structure"
    /\ Ucc => out[1] = "Section not found - checking for variations"

\* C10 as stated: a second run of fix_chart_controls.py, or of
\* update_chart_controls.py, on the file its own successful run wrote aborts
\* with exit status 1 (at the structure check, at the old_section check) and
\* leaves the file as it is.
C10_SecondRunAborts ==
    (SecondRun /\ (Fcc \/ Ucc)) => SecondRunAborts

\* C10 amended: the same, for fix_chart_controls.py provided no '(' of the
\* first run's target line is followed on that line by '<div className="relative"'.
C10_SecondRunAbortsAmended ==
    (SecondRun /\ (\/ Ucc
                   \/ Fcc /\ ~DivAfterParen(ReadLines(prev.before)[prev.target + 1])))
      => SecondRunAborts

\* fix_chart_controls.py has run twice, the second time on lines the first
\* run's '(' replacement has split, and has stopped at the structure check
C10_Witness ==
    /\ SecondRun /\ Fcc /\ exit = 1
    /\ ~DivAfterParen(ReadLines(prev.before)[prev.target + 1])
    /\ Len(ReadLines(before)) > Len(ReadLines(prev.before)) + Len(Ctrl)
    /\ file = before

====
